---- MODULE Spec2Model ----
(***************************************************************************)
(* OCPAlertGateway: the Alertmanager -> Synology Chat webhook relay.       *)
(*                                                                         *)
(* The model follows the Go sources:                                       *)
(*   api.FormatSynologyText / oneLine      (src/src/api/formatter.go)      *)
(*   ocp.Alert.AlertName                   (src/src/logger/logger.go)      *)
(*   synologychat.Sender.SendText          (src/src/synologychat/sender.go)*)
(*   webserver.Server.Webhook              (src/src/synologychat/sender.go)*)
(*                                                                         *)
(* Strings are sequences of one-character strings, so that TrimSpace,      *)
(* ReplaceAll and Join are computed character by character.                *)
(***************************************************************************)
EXTENDS Integers, Sequences, FiniteSets, TLC

VARIABLES
    srv,      \* the Server value: [Sender, Debug]; never assigned after Init
    pc,       \* pc[r]: where request r is in Webhook / SendText
    method,   \* method[r]: r.Method
    body,     \* body[r]: the bytes io.ReadAll returned for the inbound body
    wh,       \* wh[r]: the decoded ocp.Webhook
    text,     \* text[r]: the message FormatSynologyText returned
    net,      \* net[r]: the outbound call of request r that is in flight
    remote,   \* how the endpoint behind WebhookURL behaves
    err,      \* err[r]: what SendText returned to its caller
    written,  \* written[r]: the responses written to the ResponseWriter
    hist,     \* hist[r]: the steps request r has taken, in order
    log       \* the log sink shared by all requests: a set of <<r, line>>

vars == <<srv, remote, pc, method, body, wh, text, net, err, written, hist, log>>

(***************************************************************************)
(* Bounds of the model.                                                    *)
(***************************************************************************)
NumReqs == 2      \* requests served concurrently by one Server
MaxAlerts == 2    \* alerts in a formatted alert group

Reqs == 1..NumReqs

(***************************************************************************)
(* Strings.                                                                *)
(***************************************************************************)
LF == "\n"
CR == "\r"
SP == " "
TAB == "\t"

\* F(x) with x evaluated once: TLC evaluates the argument of an operator at
\* every use of the parameter, which the nested string operators multiply
Once(F(_), x) == CHOOSE y \in {F(v) : v \in {x}} : TRUE

\* unicode.IsSpace, restricted to the characters of the model's alphabet
IsSpace(c) == c \in {SP, LF, CR, TAB}

RECURSIVE TrimLeft(_)
TrimLeft(s) ==
    IF s = <<>> THEN <<>>
    ELSE IF IsSpace(Head(s)) THEN TrimLeft(Tail(s)) ELSE s

RECURSIVE TrimRight(_)
TrimRight(s) ==
    IF s = <<>> THEN <<>>
    ELSE IF IsSpace(s[Len(s)]) THEN TrimRight(SubSeq(s, 1, Len(s) - 1)) ELSE s

\* strings.TrimSpace
TrimSpace(s) == TrimRight(TrimLeft(s))

\* strings.ReplaceAll for a one-character pattern and replacement
ReplaceAll(s, old, new) ==
    [i \in 1..Len(s) |-> IF s[i] = old THEN new ELSE s[i]]

RECURSIVE Join(_, _)
\* strings.Join
Join(elems, sep) ==
    IF elems = <<>> THEN <<>>
    ELSE IF Len(elems) = 1 THEN elems[1]
    ELSE elems[1] \o sep \o Join(Tail(elems), sep)

\* Go map index: a missing key yields the empty string
MapGet(m, k) == IF k \in DOMAIN m THEN m[k] ELSE <<>>

(***************************************************************************)
(* api.FormatSynologyText                                                  *)
(***************************************************************************)
NoAlertName == <<"(", "n", "o", " ", "a", "l", "e", "r", "t", "n", "a", "m", "e", ")">>

NoBodyText ==
    <<"(", "n", "o", " ", "d", "e", "s", "c", "r", "i", "p", "t", "i", "o", "n", "/",
      "m", "e", "s", "s", "a", "g", "e", "/", "s", "u", "m", "m", "a", "r", "y", ")">>

NoAlerts ==
    <<"[", "A", "l", "e", "r", "t", "m", "a", "n", "a", "g", "e", "r", "]", " ",
      "(", "n", "o", " ", "a", "l", "e", "r", "t", "s", " ", "i", "n", " ",
      "p", "a", "y", "l", "o", "a", "d", ")">>

AlertName(a) ==
    IF "alertname" \in DOMAIN a.Labels /\ a.Labels["alertname"] # <<>>
    THEN a.Labels["alertname"]
    ELSE NoAlertName

oneLine(s) ==
    Once(TrimSpace,
         Once(LAMBDA t : ReplaceAll(t, CR, SP), Once(LAMBDA t : ReplaceAll(t, LF, SP), s)))

\* BestText order (message first): the unused helper of ocp.Alert
BodyTextMessageFirst(a) ==
    LET m == TrimSpace(MapGet(a.Annotations, "message"))
        d == TrimSpace(MapGet(a.Annotations, "description"))
        s == TrimSpace(MapGet(a.Annotations, "summary"))
    IN  IF m # <<>> THEN m
        ELSE IF d # <<>> THEN d
        ELSE IF s # <<>> THEN s
        ELSE NoBodyText

\* the annotation text chosen for one alert
BodyText(a) ==
    LET d == TrimSpace(MapGet(a.Annotations, "description"))
        m == TrimSpace(MapGet(a.Annotations, "message"))
        s == TrimSpace(MapGet(a.Annotations, "summary"))
    IN  IF d # <<>> THEN d
        ELSE IF m # <<>> THEN m
        ELSE IF s # <<>> THEN s
        ELSE NoBodyText

\* the entry appended for one alert
FormatLine(a) ==
    <<"[">> \o AlertName(a) \o <<"]", " ">> \o Once(oneLine, Once(BodyText, a))

FormatLines(alerts) == [i \in 1..Len(alerts) |-> Once(FormatLine, alerts[i])]

FormatSynologyText(w) ==
    IF Len(w.Alerts) = 0 THEN NoAlerts
    ELSE Once(LAMBDA lines : Join(lines, <<LF>>), Once(FormatLines, w.Alerts))

(***************************************************************************)
(* Payload model: ocp.Webhook / ocp.Alert and the JSON documents that      *)
(* encoding/json decodes into them.                                        *)
(***************************************************************************)
EmptyMap == [k \in {} |-> <<>>]

\* the zero value of ocp.Webhook (var wh ocp.Webhook)
ZeroWebhook == [Alerts |-> <<>>]

AlertCPU ==
    [Labels |-> [alertname |-> <<"H", "i", "g", "h", "C", "P", "U">>],
     Annotations |-> [summary |-> <<"c", "p", "u", " ", "h", "o", "t">>]]

AlertDisk ==
    [Labels |-> EmptyMap,
     Annotations |-> [description |-> <<" ", "d", LF, "d", " ">>, message |-> <<"m">>]]

\* An inbound body as io.ReadAll returned it.  kind: "garbage" is not JSON,
\* "truncated" is a document cut at the 10 MiB limit, "null" and "object"
\* are JSON values; alertsType tells what the "alerts" member of an object is.
JSONBody(kind, alertsType, alerts) ==
    [kind |-> kind, alertsType |-> alertsType, alerts |-> alerts]

Unread == JSONBody("unread", "absent", <<>>)
ReadError == JSONBody("readerror", "absent", <<>>)

Bodies ==
    { JSONBody("garbage", "absent", <<>>),
      JSONBody("truncated", "list", <<AlertCPU>>),
      JSONBody("null", "absent", <<>>),
      JSONBody("object", "string", <<>>),
      JSONBody("object", "list", <<AlertDisk, AlertCPU>>) }

\* json.Unmarshal(body, &wh): err == nil for null and for an object whose
\* members have the declared types; unknown or missing members are ignored
UnmarshalWebhook(b) ==
    [ok |-> b.kind = "null" \/ (b.kind = "object" /\ b.alertsType # "string"),
     wh |-> IF b.kind = "object" /\ b.alertsType = "list"
            THEN [Alerts |-> b.alerts]
            ELSE ZeroWebhook]

(***************************************************************************)
(* synologychat.Sender                                                     *)
(***************************************************************************)
URLs == { <<>>, <<SP>>, <<"u">>, <<"u", LF>> }

\* *synologychat.Sender: <<>> is the nil pointer, <<s>> points to s
Senders ==
    { <<>> } \cup
    { <<[WebhookURL |-> u, InsecureSkipVerify |-> i]>> : u \in URLs, i \in BOOLEAN }

\* http.NewRequest fails when url.Parse rejects the URL (a control character)
NewRequestOK(u) == \A i \in 1..Len(u) : u[i] \notin {LF, CR, TAB}

ErrNil == "nil"
NotCalled == "not called"
OutOfScope == "out of scope"
ErrURLEmpty == "synology webhook url is empty"
ErrNewRequest == "http.NewRequest error"
ErrClientDo == "client.Do error"
ErrNon2xx == "synology non-2xx"
ErrNackDetails == "synology success=false code errors"
ErrNackNoDetails == "synology success=false (no error details)"
ErrNotJSON == "synology response not json"

\* The body of the Synology response as read (at most 1 MiB of it).
\* success: what the "success" member is; error: whether "error" is an object.
RespBody(kind, success, error) == [kind |-> kind, success |-> success, error |-> error]

RespBodies ==
    { RespBody("garbage", "absent", FALSE),
      RespBody("null", "absent", FALSE),
      RespBody("object", "true", FALSE),
      RespBody("object", "false", FALSE),
      RespBody("object", "false", TRUE),
      RespBody("object", "string", FALSE) }

Statuses == {199, 200, 299, 300}

\* json.Unmarshal(rb, &sr) into synologyResp
UnmarshalResp(b) ==
    [ok |-> b.kind = "null" \/ (b.kind = "object" /\ b.success # "string"),
     Success |-> b.kind = "object" /\ b.success = "true",
     HasError |-> b.kind = "object" /\ b.error]

NoResponse == [kind |-> "none", status |-> 0, body |-> RespBody("garbage", "absent", FALSE)]

\* what client.Do can return: an error (refused, DNS, TLS, the 10 s timeout)
\* or a response; a certificate error needs certificate verification
DoOutcomes(s) ==
    { [kind |-> k, status |-> 0, body |-> RespBody("garbage", "absent", FALSE)] :
        k \in {"refused", "timeout"} \cup (IF s.InsecureSkipVerify THEN {} ELSE {"badcert"}) }
    \cup { [kind |-> "resp", status |-> st, body |-> b] : st \in Statuses, b \in RespBodies }

\* SendText after the body was read: status check first, then the JSON
SendTextResultStatusLast(resp) ==
    LET sr == UnmarshalResp(resp.body)
    IN  IF sr.ok
        THEN IF ~sr.Success
             THEN IF sr.HasError THEN ErrNackDetails ELSE ErrNackNoDetails
             ELSE IF resp.status < 200 \/ resp.status >= 300 THEN ErrNon2xx ELSE ErrNil
        ELSE ErrNotJSON

SendTextResult(resp) ==
    IF resp.status < 200 \/ resp.status >= 300 THEN ErrNon2xx
    ELSE LET sr == UnmarshalResp(resp.body)
         IN  IF sr.ok
             THEN IF ~sr.Success
                  THEN IF sr.HasError THEN ErrNackDetails ELSE ErrNackNoDetails
                  ELSE ErrNil
             ELSE ErrNotJSON

(***************************************************************************)
(* webserver.Server.Webhook, one step at a time.  A step ends where the    *)
(* handler can block (reading the inbound body, the outbound call) or      *)
(* where it calls another function of the program.                        *)
(***************************************************************************)
Methods == {"POST", "GET"}

StatusOK == 200
StatusBadRequest == 400
StatusMethodNotAllowed == 405

Response(status, b) == [status |-> status, body |-> b]

Terminal == {"Acknowledged", "RejectedMethod", "RejectedBody"}

Step(r, to, event) ==
    /\ pc' = [pc EXCEPT ![r] = to]
    /\ hist' = [hist EXCEPT ![r] = Append(@, event)]

Logged(r, lines) == log' = log \cup { <<r, l>> : l \in lines }

\* mutant: the method check writes 405 and goes on
CheckMethodNoReturn(r) ==
    /\ pc[r] = "Idle"
    /\ \E m \in Methods :
        /\ method' = [method EXCEPT ![r] = m]
        /\ written' = [written EXCEPT ![r] =
              IF m # "POST" THEN Append(@, Response(StatusMethodNotAllowed, "")) ELSE @]
        /\ Step(r, "ReadingBody", "enter")
    /\ UNCHANGED <<srv, remote, body, wh, text, net, err, log>>

\* the request enters Webhook; only POST goes on
CheckMethod(r) ==
    /\ pc[r] = "Idle"
    /\ \E m \in Methods :
        /\ method' = [method EXCEPT ![r] = m]
        /\ IF m # "POST"
           THEN /\ written' = [written EXCEPT ![r] =
                      Append(@, Response(StatusMethodNotAllowed, ""))]
                /\ Step(r, "RejectedMethod", "enter")
           ELSE /\ Step(r, "ReadingBody", "enter")
                /\ UNCHANGED written
    /\ UNCHANGED <<srv, remote, body, wh, text, net, err, log>>

\* what the debug block logs once the body is read
DebugDump(b) ==
    IF srv.Debug
    THEN {"INCOMING REQUEST"} \cup
         (IF b.kind \in {"null", "object"} THEN {"JSON PRETTY"} ELSE {})
    ELSE {}

\* io.ReadAll(io.LimitReader(r.Body, 10<<20)) returns: an error, or the bytes
ReadBody(r) ==
    /\ pc[r] = "ReadingBody"
    /\ \/ /\ body' = [body EXCEPT ![r] = ReadError]
          /\ Logged(r, {"failed to read body"})
          /\ written' = [written EXCEPT ![r] =
                Append(@, Response(StatusBadRequest, "failed to read body\n"))]
          /\ Step(r, "RejectedBody", "read")
       \/ \E b \in Bodies :
          /\ body' = [body EXCEPT ![r] = b]
          /\ Logged(r, DebugDump(b))
          /\ Step(r, "Parsing", "read")
          /\ UNCHANGED written
    /\ UNCHANGED <<srv, remote, method, wh, text, net, err>>

\* mutant: the decode error is logged but the handler goes on
ParseBodyIgnoreError(r) ==
    /\ pc[r] = "Parsing"
    /\ LET d == UnmarshalWebhook(body[r])
       IN  /\ wh' = [wh EXCEPT ![r] = d.wh]
           /\ Logged(r, IF d.ok THEN {"alertmanager webhook received"}
                        ELSE {"json unmarshal failed", "alertmanager webhook received"})
           /\ Step(r, "Formatting", "parse")
           /\ UNCHANGED written
    /\ UNCHANGED <<srv, remote, method, body, text, net, err>>

\* json.Unmarshal(body, &wh), the 400 on failure, the receipt line on success
ParseBody(r) ==
    /\ pc[r] = "Parsing"
    /\ LET d == UnmarshalWebhook(body[r])
       IN  IF ~d.ok
           THEN /\ Logged(r, {"json unmarshal failed"})
                /\ written' = [written EXCEPT ![r] =
                      Append(@, Response(StatusBadRequest, "invalid JSON\n"))]
                /\ Step(r, "RejectedBody", "parse")
                /\ UNCHANGED wh
           ELSE /\ wh' = [wh EXCEPT ![r] = d.wh]
                /\ Logged(r, {"alertmanager webhook received"})
                /\ Step(r, "Formatting", "parse")
                /\ UNCHANGED written
    /\ UNCHANGED <<srv, remote, method, body, text, net, err>>

\* mutant: the message is built in a buffer shared by all requests
FormatSharedBuffer(r) ==
    /\ pc[r] = "Formatting"
    /\ text' = [q \in Reqs |-> FormatSynologyText(wh[r])]
    /\ Logged(r, IF srv.Debug THEN {"SYNOLOGY TEXT"} ELSE {})
    /\ Step(r, "Sending", "format")
    /\ UNCHANGED <<srv, remote, method, body, wh, net, err, written>>

\* text := api.FormatSynologyText(wh)
Format(r) ==
    /\ pc[r] = "Formatting"
    /\ text' = [text EXCEPT ![r] = FormatSynologyText(wh[r])]
    /\ Logged(r, IF srv.Debug THEN {"SYNOLOGY TEXT"} ELSE {})
    /\ Step(r, "Sending", "format")
    /\ UNCHANGED <<srv, remote, method, body, wh, net, err, written>>

\* s.Sender != nil && s.Sender.WebhookURL != ""
SenderConfigured == srv.Sender # <<>> /\ srv.Sender[1].WebhookURL # <<>>

\* mutant: the message is sent in the background and the handler goes on
SendIfConfiguredAsync(r) ==
    /\ pc[r] = "Sending"
    /\ IF SenderConfigured
       THEN Step(r, "NotSent", "send")
       ELSE Step(r, "NotSent", "skip")
    /\ UNCHANGED <<srv, remote, method, body, wh, text, net, err, written, log>>

\* the handler calls SendText, or takes the else branch
SendIfConfigured(r) ==
    /\ pc[r] = "Sending"
    /\ IF SenderConfigured
       THEN /\ Step(r, "SendText", "send")
            /\ UNCHANGED log
       ELSE /\ Step(r, "NotSent", "skip")
            /\ Logged(r, IF srv.Debug THEN {"synology sender not configured"} ELSE {})
    /\ UNCHANGED <<srv, remote, method, body, wh, text, net, err, written>>

(***************************************************************************)
(* synologychat.Sender.SendText, one step at a time.                       *)
(***************************************************************************)
\* the outstanding call: the remote will answer or fail ("pending"), or it
\* never answers ("hung") and only the client's timeout ends the call
InFlightCall(d) == [kind |-> d, status |-> 0, body |-> RespBody("garbage", "absent", FALSE)]

\* the endpoint behind WebhookURL: it behaves in any way, or in one given way
AnyRemote == [kind |-> "any", status |-> 0, body |-> RespBody("garbage", "absent", FALSE)]

Dispositions ==
    IF remote.kind = "any" THEN {"pending", "hung"}
    ELSE IF remote.kind = "timeout" THEN {"hung"} ELSE {"pending"}

\* from the URL check to the moment client.Do has issued the POST
SendTextBegin(r) ==
    /\ pc[r] = "SendText"
    /\ LET s == srv.Sender[1]
       IN  IF TrimSpace(s.WebhookURL) = <<>>
           THEN /\ err' = [err EXCEPT ![r] = ErrURLEmpty]
                /\ Step(r, "SendReturned", "ret")
                /\ UNCHANGED net
           ELSE IF ~NewRequestOK(s.WebhookURL)
           THEN /\ err' = [err EXCEPT ![r] = ErrNewRequest]
                /\ Step(r, "SendReturned", "ret")
                /\ UNCHANGED net
           ELSE /\ \E d \in Dispositions : net' = [net EXCEPT ![r] = InFlightCall(d)]
                /\ Step(r, "InFlight", "post")
                /\ UNCHANGED err
    /\ UNCHANGED <<srv, remote, method, body, wh, text, written, log>>

\* the outcomes client.Do can end with for the outstanding call c
Returns(c, s) ==
    { o \in DoOutcomes(s) : /\ c.kind = "hung" => o.kind = "timeout"
                            /\ remote.kind # "any" => o = remote }

\* mutant: a client without Timeout
ClientDoReturnNoTimeout(r) ==
    /\ pc[r] = "InFlight"
    /\ \E o \in Returns(net[r], srv.Sender[1]) :
        /\ o.kind # "timeout"
        /\ err' = [err EXCEPT ![r] =
              IF o.kind # "resp" THEN ErrClientDo ELSE SendTextResult(o)]
        /\ Step(r, "SendReturned", "ret")
    /\ net' = [net EXCEPT ![r] = NoResponse]
    /\ UNCHANGED <<srv, remote, method, body, wh, text, written, log>>

\* mutant: a failed call is tried again
ClientDoReturnRetry(r) ==
    /\ pc[r] = "InFlight"
    /\ \E o \in Returns(net[r], srv.Sender[1]) :
        IF o.kind # "resp"
        THEN /\ Step(r, "SendText", "retry")
             /\ UNCHANGED err
        ELSE /\ err' = [err EXCEPT ![r] = SendTextResult(o)]
             /\ Step(r, "SendReturned", "ret")
    /\ net' = [net EXCEPT ![r] = NoResponse]
    /\ UNCHANGED <<srv, remote, method, body, wh, text, written, log>>

\* client.Do returns: an error ends SendText; a response is read (within the
\* same timeout), logged in debug mode, and decided by SendTextResult
ClientDoReturn(r) ==
    /\ pc[r] = "InFlight"
    /\ \E o \in Returns(net[r], srv.Sender[1]) :
        IF o.kind # "resp"
        THEN /\ err' = [err EXCEPT ![r] = ErrClientDo]
             /\ Step(r, "SendReturned", IF o.kind = "timeout" THEN "timeout" ELSE "ret")
             /\ UNCHANGED log
        ELSE /\ err' = [err EXCEPT ![r] = SendTextResult(o)]
             /\ Logged(r, IF srv.Debug THEN {"synology response status"} ELSE {})
             /\ Step(r, "SendReturned", "ret")
    /\ net' = [net EXCEPT ![r] = NoResponse]
    /\ UNCHANGED <<srv, remote, method, body, wh, text, written>>

\* mutant: a failed send is reported to the inbound caller
AcknowledgeSurfaceError(r) ==
    /\ pc[r] \in {"SendReturned", "NotSent"}
    /\ written' = [written EXCEPT ![r] =
          Append(@, IF pc[r] = "SendReturned" /\ err[r] # ErrNil
                    THEN Response(502, "send failed\n")
                    ELSE Response(StatusOK, "ok\n"))]
    /\ err' = [err EXCEPT ![r] = IF pc[r] = "SendReturned" THEN OutOfScope ELSE @]
    /\ Step(r, "Acknowledged", "ack")
    /\ UNCHANGED <<srv, remote, method, body, wh, text, net, log>>

\* the send result is logged (err lives in the if statement only) and
\* 200 "ok" is written
Acknowledge(r) ==
    /\ pc[r] \in {"SendReturned", "NotSent"}
    /\ Logged(r, IF pc[r] = "NotSent" THEN {}
                 ELSE IF err[r] # ErrNil THEN {"synology send failed"}
                 ELSE {"synology chat sent OK"})
    /\ written' = [written EXCEPT ![r] = Append(@, Response(StatusOK, "ok\n"))]
    /\ err' = [err EXCEPT ![r] = IF pc[r] = "SendReturned" THEN OutOfScope ELSE @]
    /\ Step(r, "Acknowledged", "ack")
    /\ UNCHANGED <<srv, remote, method, body, wh, text, net>>

(***************************************************************************)
(* The server: any Sender (nil, or any URL), any Debug, requests not yet   *)
(* arrived.                                                                *)
(***************************************************************************)
Fresh(p) ==
    /\ pc = [r \in Reqs |-> p]
    /\ method = [r \in Reqs |-> ""]
    /\ body = [r \in Reqs |-> Unread]
    /\ wh = [r \in Reqs |-> ZeroWebhook]
    /\ text = [r \in Reqs |-> <<>>]
    /\ net = [r \in Reqs |-> NoResponse]
    /\ err = [r \in Reqs |-> NotCalled]
    /\ written = [r \in Reqs |-> <<>>]
    /\ log = {}

\* The Sender of the served Server verifies certificates: InsecureSkipVerify
\* only removes a transport error client.Do can return, and SendSpec covers it.
Init ==
    /\ srv \in [Sender : {s \in Senders : s = <<>> \/ ~s[1].InsecureSkipVerify},
                Debug : BOOLEAN]
    /\ remote = AnyRemote
    /\ Fresh("Idle")
    /\ hist = [r \in Reqs |-> <<>>]

\* the steps of request r
Webhook(r) ==
    \/ CheckMethod(r)
    \/ ReadBody(r)
    \/ ParseBody(r)
    \/ Format(r)
    \/ SendIfConfigured(r)
    \/ SendTextBegin(r)
    \/ ClientDoReturn(r)
    \/ Acknowledge(r)

Next == \E r \in Reqs : Webhook(r)

Spec == Init /\ [][Next]_vars

\* A goroutine that can run does run, and client.Do returns within the
\* client's Timeout.  No fairness for CheckMethod (a request need not arrive)
\* nor for ReadBody: the http.Server sets ReadHeaderTimeout only, so the
\* read of the inbound body returns when the peer lets it.
FairSpec ==
    /\ Spec
    /\ \A r \in Reqs :
        /\ WF_vars(ParseBody(r))
        /\ WF_vars(Format(r))
        /\ WF_vars(SendIfConfigured(r))
        /\ WF_vars(SendTextBegin(r))
        /\ WF_vars(ClientDoReturn(r))
        /\ WF_vars(Acknowledge(r))

(***************************************************************************)
(* SendText called directly, on any non-nil Sender, against an endpoint    *)
(* that behaves in one given way.                                          *)
(***************************************************************************)
InitSend ==
    /\ srv \in [Sender : Senders \ {<<>>}, Debug : BOOLEAN]
    /\ remote \in DoOutcomes(srv.Sender[1])
    /\ Fresh("SendText")
    /\ hist = [r \in Reqs |-> <<"send">>]

NextSend == \E r \in Reqs : SendTextBegin(r) \/ ClientDoReturn(r)

SendSpec == InitSend /\ [][NextSend]_vars

(***************************************************************************)
(* FormatSynologyText applied to the alert groups of up to MaxAlerts       *)
(* alerts, in the handler of one request whose body decoded to the group.  *)
(***************************************************************************)
Absent == <<"absent">>

AlertOf(n, d, m, s) ==
    LET v == [description |-> d, message |-> m, summary |-> s]
    IN  [Labels |-> [k \in {x \in {"alertname"} : n # Absent} |-> n],
         Annotations |->
             [k \in {x \in {"description", "message", "summary"} : v[x] # Absent} |-> v[k]]]

AlertSet ==
    { AlertOf(n, d, m, s) :
        n \in {Absent, <<>>, <<"n">>, <<"a", LF, "b">>},
        d \in {Absent, <<SP>>, <<"d", LF, "d">>},
        m \in {<<>>, <<"m", CR, "m">>},
        s \in {Absent, <<SP, "s", SP>>} }

AlertGroups == UNION { [1..n -> AlertSet] : n \in 0..MaxAlerts }

InitFormat ==
    /\ srv = [Sender |-> <<>>, Debug |-> FALSE]
    /\ remote = AnyRemote
    /\ \E g \in AlertGroups :
        /\ body = [r \in Reqs |-> IF r = 1 THEN JSONBody("object", "list", g) ELSE Unread]
        /\ wh = [r \in Reqs |-> IF r = 1 THEN [Alerts |-> g] ELSE ZeroWebhook]
    /\ pc = [r \in Reqs |-> IF r = 1 THEN "Formatting" ELSE "Idle"]
    /\ method = [r \in Reqs |-> IF r = 1 THEN "POST" ELSE ""]
    /\ text = [r \in Reqs |-> <<>>]
    /\ net = [r \in Reqs |-> NoResponse]
    /\ err = [r \in Reqs |-> NotCalled]
    /\ written = [r \in Reqs |-> <<>>]
    /\ hist = [r \in Reqs |-> IF r = 1 THEN <<"enter", "read", "parse">> ELSE <<>>]
    /\ log = {<<1, "alertmanager webhook received">>}

NextFormat == \E r \in Reqs : Format(r)

FormatSpec == InitFormat /\ [][NextFormat]_vars

(***************************************************************************)
(* Properties.                                                             *)
(***************************************************************************)
Has(h, e) == \E i \in DOMAIN h : h[i] = e

Count(h, e) == Cardinality({i \in DOMAIN h : h[i] = e})

\* the body of request r was read and decodes into the alert-group shape
Decoded(r) == body[r].kind \notin {"unread", "readerror"} /\ UnmarshalWebhook(body[r]).ok

\* the body of request r could not be read, or does not decode
BadBody(r) ==
    \/ body[r].kind = "readerror"
    \/ body[r].kind # "unread" /\ ~UnmarshalWebhook(body[r]).ok

SendFailures ==
    {ErrURLEmpty, ErrNewRequest, ErrClientDo, ErrNon2xx, ErrNackDetails, ErrNackNoDetails,
     ErrNotJSON}

\* C1: a POST whose body decodes is answered 200 "ok" (the line "ok\n"),
\* whether the sender is nil, has an empty URL, succeeds or fails in any way:
\* nothing but that response is ever written for it, the handler ends only in
\* Acknowledged, and once the sender has returned or was skipped the
\* acknowledgment is the step that follows.
C1_AlwaysAcknowledged ==
    \A r \in Reqs :
        method[r] = "POST" /\ Decoded(r) =>
            /\ written[r] \in {<<>>, <<Response(200, "ok\n")>>}
            /\ pc[r] \in Terminal => pc[r] = "Acknowledged" /\ written[r] = <<Response(200, "ok\n")>>
            /\ pc[r] \in {"SendReturned", "NotSent"} => ENABLED Acknowledge(r)

\* C1 witness: a request acknowledged with 200 although SendText failed
C1_Witness ==
    \E r \in Reqs :
        /\ pc[r] = "Acknowledged" /\ <<r, "synology send failed">> \in log
        /\ written[r] = <<Response(200, "ok\n")>>

\* C2: a POST whose body cannot be read or decoded is answered 400 and ends
\* there: the formatter and the sender are never invoked, no POST is issued.
C2_BadBodyRejected ==
    \A r \in Reqs :
        BadBody(r) =>
            /\ pc[r] \in {"Parsing", "RejectedBody"}
            /\ pc[r] = "Parsing" => written[r] = <<>>
            /\ pc[r] = "RejectedBody" =>
                  Len(written[r]) = 1 /\ written[r][1].status = 400
            /\ ~Has(hist[r], "format") /\ ~Has(hist[r], "send") /\ ~Has(hist[r], "post")
            /\ text[r] = <<>> /\ err[r] = NotCalled /\ net[r] = NoResponse

\* C2 witness: a body cut at the read limit was rejected
C2_Witness ==
    \E r \in Reqs : pc[r] = "RejectedBody" /\ body[r].kind = "truncated"

\* C3: a request whose method is not POST is answered 405 and nothing else
\* happens: the body is not read, nothing is parsed, formatted or sent.
C3_MethodRejected ==
    \A r \in Reqs :
        method[r] \notin {"", "POST"} =>
            /\ pc[r] = "RejectedMethod"
            /\ written[r] = <<Response(405, "")>>
            /\ hist[r] = <<"enter">>
            /\ body[r] = Unread /\ wh[r] = ZeroWebhook /\ text[r] = <<>>
            /\ err[r] = NotCalled /\ net[r] = NoResponse

\* C3 witness: a GET request was rejected
C3_Witness ==
    \E r \in Reqs : pc[r] = "RejectedMethod" /\ method[r] = "GET"

\* C4: a request calls SendText at most once and issues at most one POST;
\* once SendText has returned, with or without an error, the request is
\* never again in SendText or in flight.
C4_SingleAttempt ==
    \A r \in Reqs :
        /\ Count(hist[r], "send") <= 1
        /\ Count(hist[r], "post") <= 1
        /\ err[r] # NotCalled => pc[r] \in {"SendReturned", "Acknowledged"}
        /\ err[r] = OutOfScope <=> pc[r] = "Acknowledged" /\ Has(hist[r], "send")
        /\ pc[r] \in {"SendText", "InFlight"} => err[r] = NotCalled

\* C4 witness: a request whose single POST failed was acknowledged
C4_Witness ==
    \E r \in Reqs :
        /\ pc[r] = "Acknowledged" /\ <<r, "synology send failed">> \in log
        /\ Count(hist[r], "send") = 1 /\ Count(hist[r], "post") = 1

\* the claim's reading of "blank": empty or whitespace only
Blank(u) == \A i \in 1..Len(u) : u[i] \in {SP, TAB, LF, CR}

\* C5: the result of SendText, by the first rule that matches: a blank URL
\* gives the empty-URL error and no POST; a transport failure gives the
\* transport error; a status outside 200..299 gives non-2xx whatever the
\* body; a 2xx body that does not parse gives not-json; success=false gives
\* the nack (with details when there are any); otherwise nil.  nil is
\* returned if and only if the status is 2xx and the body parses with
\* success true.  (A URL http.NewRequest rejects gives an error, no POST.)
C5_SendTextDecision ==
    \A r \in Reqs :
        pc[r] = "SendReturned" =>
            LET u == srv.Sender[1].WebhookURL
                parses == UnmarshalResp(remote.body).ok
                success == remote.body.kind = "object" /\ remote.body.success = "true"
                twoxx == remote.status \in 200..299
            IN  /\ Blank(u) => err[r] = ErrURLEmpty /\ ~Has(hist[r], "post")
                /\ ~Blank(u) /\ ~NewRequestOK(u) =>
                      err[r] \in SendFailures /\ ~Has(hist[r], "post")
                /\ ~Blank(u) /\ NewRequestOK(u) =>
                      /\ Count(hist[r], "post") = 1
                      /\ err[r] =
                            IF remote.kind # "resp" THEN ErrClientDo
                            ELSE IF ~twoxx THEN ErrNon2xx
                            ELSE IF ~parses THEN ErrNotJSON
                            ELSE IF ~success
                                 THEN IF remote.body.error THEN ErrNackDetails
                                      ELSE ErrNackNoDetails
                            ELSE ErrNil
                /\ err[r] = ErrNil <=>
                      /\ ~Blank(u) /\ NewRequestOK(u)
                      /\ remote.kind = "resp" /\ twoxx /\ parses /\ success

\* C5 witness: status 300 with the body {"success": true} was rejected
C5_Witness ==
    \E r \in Reqs :
        /\ pc[r] = "SendReturned" /\ err[r] = ErrNon2xx
        /\ remote.status = 300 /\ remote.body = RespBody("object", "true", FALSE)

\* the annotation is a key of the alert's annotations
Present(a, k) == k \in DOMAIN a.Annotations

\* the value has a character that is not white space
NonBlank(v) == \E i \in 1..Len(v) : v[i] \notin {SP, TAB, LF, CR}

\* the message of a group whose alerts have the bodies pick gives them
TextWithBodies(w, pick(_)) ==
    Join([i \in 1..Len(w.Alerts) |->
             <<"[">> \o AlertName(w.Alerts[i]) \o <<"]", " ">> \o pick(w.Alerts[i])],
         <<LF>>)

\* the body taken from description whenever all three annotations are present
DescriptionWhenAllPresent(a) ==
    IF \A k \in {"description", "message", "summary"} : Present(a, k)
    THEN oneLine(a.Annotations["description"])
    ELSE oneLine(BodyText(a))

\* the body by the first annotation that is present and not blank
FirstNonBlank(a) ==
    IF Present(a, "description") /\ NonBlank(a.Annotations["description"])
    THEN oneLine(a.Annotations["description"])
    ELSE IF Present(a, "message") /\ NonBlank(a.Annotations["message"])
    THEN oneLine(a.Annotations["message"])
    ELSE IF Present(a, "summary") /\ NonBlank(a.Annotations["summary"])
    THEN oneLine(a.Annotations["summary"])
    ELSE NoBodyText

\* C6 as stated: for every alert in which description, message and summary
\* are all present, the body of its line is the value of description (made
\* one line), never that of message or summary.
C6_DescriptionWhenAllPresent ==
    \A r \in Reqs :
        pc[r] = "Sending" /\ Len(wh[r].Alerts) >= 1 =>
            text[r] = TextWithBodies(wh[r], DescriptionWhenAllPresent)

\* C6 as amended: the body of every line comes from the first annotation, in
\* the order description, message, summary, that is present and not blank
\* (not empty, not white space only), else the placeholder; with all three
\* present and description not blank it comes from description.
C6_FirstNonBlankAnnotation ==
    \A r \in Reqs :
        pc[r] = "Sending" /\ Len(wh[r].Alerts) >= 1 =>
            text[r] = TextWithBodies(wh[r], FirstNonBlank)

\* C6 witness: a formatted alert has all three annotations, none of them blank
C6_Witness ==
    \E r \in Reqs :
        /\ pc[r] = "Sending"
        /\ \E i \in 1..Len(wh[r].Alerts) :
              \A k \in {"description", "message", "summary"} :
                  Present(wh[r].Alerts[i], k) /\ NonBlank(wh[r].Alerts[i].Annotations[k])

RECURSIVE Split(_, _)
\* strings.Split for a one-character separator
Split(s, sep) ==
    IF \A i \in 1..Len(s) : s[i] # sep THEN <<s>>
    ELSE LET i == CHOOSE j \in 1..Len(s) :
                      s[j] = sep /\ \A k \in 1..(j - 1) : s[k] # sep
         IN  <<SubSeq(s, 1, i - 1)>> \o Split(SubSeq(s, i + 1, Len(s)), sep)

\* C7: the message of a group of N >= 1 alerts is N lines separated by
\* single line feeds, the i-th being "[name] body" of the i-th alert, for
\* every content of the labels and annotations.
C7_OneLinePerAlert ==
    \A r \in Reqs :
        pc[r] = "Sending" /\ Len(wh[r].Alerts) >= 1 =>
            LET lines == Split(text[r], LF)
            IN  /\ Len(lines) = Len(wh[r].Alerts)
                /\ \A i \in 1..Len(lines) :
                      lines[i] = <<"[">> \o AlertName(wh[r].Alerts[i]) \o <<"]", " ">>
                                 \o oneLine(BodyText(wh[r].Alerts[i]))

\* C8 as stated: every request that has entered Webhook eventually reaches
\* a terminal state.
C8_EveryRequestEnds ==
    \A r \in Reqs : (pc[r] # "Idle") ~> (pc[r] \in Terminal)

\* C8 as amended: every request whose inbound body has been read (io.ReadAll
\* has returned) eventually reaches exactly one of Acknowledged,
\* RejectedMethod, RejectedBody and stays there, with exactly one response
\* written and never more than one; an outbound call in flight, hung or not,
\* always ends and the request is then Acknowledged.
C8_EndsOnceBodyRead ==
    \A r \in Reqs :
        /\ (pc[r] \notin {"Idle", "ReadingBody"}) ~>
              \/ [](pc[r] = "Acknowledged")
              \/ [](pc[r] = "RejectedMethod")
              \/ [](pc[r] = "RejectedBody")
        /\ (pc[r] = "InFlight") ~> (pc[r] = "Acknowledged")
        /\ [](Len(written[r]) <= 1 /\ (pc[r] \in Terminal <=> Len(written[r]) = 1))

\* C8 witness: a request whose outbound call hung was ended by the timeout
\* and acknowledged
C8_Witness ==
    \E r \in Reqs :
        /\ pc[r] = "Acknowledged" /\ Has(hist[r], "timeout")
        /\ written[r] = <<Response(200, "ok\n")>>

\* what a request holds: the locals of its Webhook and SendText calls
Local(r) ==
    <<pc[r], method[r], body[r], wh[r], text[r], net[r], err[r], written[r], hist[r]>>

\* the terminal state the method and the body of a request call for
TerminalFor(m, b) ==
    IF m # "POST" THEN "RejectedMethod"
    ELSE IF b.kind = "readerror" \/ ~UnmarshalWebhook(b).ok THEN "RejectedBody"
    ELSE "Acknowledged"

StatusFor(m, b) ==
    IF m # "POST" THEN 405
    ELSE IF b.kind = "readerror" \/ ~UnmarshalWebhook(b).ok THEN 400
    ELSE 200

\* the outcome of every request follows from its own method and body and
\* from the configuration; no request waits for another (a request that is
\* not done can take its next step)
C9_OwnOutcome ==
    \A r \in Reqs :
        /\ pc[r] \in Terminal =>
              /\ pc[r] = TerminalFor(method[r], body[r])
              /\ Len(written[r]) = 1
              /\ written[r][1].status = StatusFor(method[r], body[r])
        /\ Has(hist[r], "send") =>
              /\ text[r] = FormatSynologyText(UnmarshalWebhook(body[r]).wh)
              /\ SenderConfigured
        /\ pc[r] = "Acknowledged" => (Has(hist[r], "send") <=> SenderConfigured)
        /\ pc[r] \notin Terminal => ENABLED Webhook(r)

\* a step changes the locals of one request at most, and never the Server
C9_OwnState ==
    /\ srv' = srv
    /\ \A r, q \in Reqs : r # q => Local(r)' = Local(r) \/ Local(q)' = Local(q)

\* C9: whatever the interleaving of the requests of one Server, the terminal
\* state, the response status and the text sent by a request are those its
\* own method and body and the configuration call for; a step of a request
\* writes only that request's state (and the log, which nothing reads), and
\* a request whose send failed or is blocked leaves every other request able
\* to take its next step.
C9_RequestsIndependent == []C9_OwnOutcome /\ [][C9_OwnState]_vars

\* C9 witness: one request is acknowledged after a successful send while the
\* call of another, earlier request is hung
C9_Witness ==
    \E r, q \in Reqs :
        /\ r # q
        /\ pc[r] = "InFlight" /\ net[r].kind = "hung"
        /\ pc[q] = "Acknowledged" /\ <<q, "synology chat sent OK">> \in log
        /\ text[q] # text[r]

\* the place of a step in the order of the handler
Rank(e) ==
    CASE e = "enter" -> 1
      [] e = "read" -> 2
      [] e = "parse" -> 3
      [] e = "format" -> 4
      [] e \in {"send", "skip"} -> 5
      [] e = "post" -> 6
      [] e \in {"ret", "timeout"} -> 7
      [] e = "ack" -> 8
      [] OTHER -> 0

\* C10: the steps of a request are taken in the order parse, format, send,
\* acknowledge, none twice and none out of order: format only after a
\* successful parse, SendText only with the message the formatter returned,
\* the 200 only after SendText (if called) has returned, and nothing is
\* written while the outbound call is being made.
C10_StepsInOrder ==
    \A r \in Reqs :
        LET h == hist[r]
        IN  /\ \A i, j \in DOMAIN h : i < j => Rank(h[i]) < Rank(h[j])
            /\ Has(h, "format") => Has(h, "parse") /\ Decoded(r)
            /\ Has(h, "send") \/ Has(h, "skip") =>
                  Has(h, "format") /\ text[r] = FormatSynologyText(wh[r])
            /\ Has(h, "post") => Has(h, "send")
            /\ Has(h, "ack") =>
                  /\ Has(h, "send") \/ Has(h, "skip")
                  /\ Has(h, "send") => Has(h, "ret") \/ Has(h, "timeout")
            /\ pc[r] \in {"Formatting", "Sending", "SendText", "InFlight"} => written[r] = <<>>

\* C10 witness: a request went through every step, the send ending in a nack
C10_Witness ==
    \E r \in Reqs :
        /\ hist[r] = <<"enter", "read", "parse", "format", "send", "post", "ret">>
        /\ pc[r] = "SendReturned" /\ err[r] = ErrNackDetails
        /\ ENABLED Acknowledge(r)

(***************************************************************************)
(* The Server as func main wires it from a loaded configuration.           *)
(***************************************************************************)
\* config.Config after Load: a key the YAML omits keeps its zero value
Configs ==
    [ SynologyChat : [Enabled : BOOLEAN, WebhookURL : URLs, InsecureSkipVerify : BOOLEAN],
      Debug : BOOLEAN ]

\* mutant: main tests the URL without trimming it
mainNoTrim(cfg) ==
    [ Sender |-> IF cfg.SynologyChat.Enabled /\ cfg.SynologyChat.WebhookURL # <<>>
                 THEN << [WebhookURL |-> cfg.SynologyChat.WebhookURL,
                          InsecureSkipVerify |-> cfg.SynologyChat.InsecureSkipVerify] >>
                 ELSE <<>>,
      Debug |-> cfg.Debug ]

\* the Server main creates: the sender stays nil unless chat is enabled and
\* the URL is non-blank; the URL is stored as configured, untrimmed
main(cfg) ==
    [ Sender |-> IF cfg.SynologyChat.Enabled /\ TrimSpace(cfg.SynologyChat.WebhookURL) # <<>>
                 THEN << [WebhookURL |-> cfg.SynologyChat.WebhookURL,
                          InsecureSkipVerify |-> cfg.SynologyChat.InsecureSkipVerify] >>
                 ELSE <<>>,
      Debug |-> cfg.Debug ]

InitMain ==
    /\ \E cfg \in Configs : srv = main(cfg)
    /\ remote = AnyRemote
    /\ Fresh("Idle")
    /\ hist = [r \in Reqs |-> <<>>]

MainSpec == InitMain /\ [][Next]_vars

\* C11: on a Server wired by main the Sender is non-nil only if the
\* configuration enables chat and its URL is non-blank after trimming; the
\* handler's guard never passes a URL the sender's check rejects; whenever
\* SendText has been invoked the URL is non-blank, SendText never returns the
\* empty-URL error, and a SendText that returned without a POST in flight
\* returned from building the request.
C11_SendTextNeverBlank ==
    /\ srv.Sender # <<>> =>
          \A cfg \in Configs :
              main(cfg) = srv =>
                  /\ cfg.SynologyChat.Enabled
                  /\ TrimSpace(cfg.SynologyChat.WebhookURL) # <<>>
    /\ SenderConfigured => TrimSpace(srv.Sender[1].WebhookURL) # <<>>
    /\ \A r \in Reqs :
          /\ pc[r] \in {"SendText", "InFlight", "SendReturned"} =>
                 /\ srv.Sender # <<>>
                 /\ TrimSpace(srv.Sender[1].WebhookURL) # <<>>
          /\ err[r] # ErrURLEmpty
          /\ pc[r] = "SendReturned" /\ ~Has(hist[r], "post") => err[r] = ErrNewRequest

\* C11 witness: on a Server main wired with a sender, the handler invoked
\* SendText, which passed its URL check and has the POST in flight
C11_Witness ==
    \E r \in Reqs :
        /\ pc[r] = "InFlight" /\ Has(hist[r], "send")
        /\ \E cfg \in Configs : main(cfg) = srv /\ cfg.SynologyChat.Enabled

====
